---- MODULE Spec2Model ----
(***************************************************************************)
(* RealSenseImpl: the triple-buffered camera pipeline of the RealSense     *)
(* plugin.  One camera processing thread (CameraThread) fills the          *)
(* background RealSenseDataFrame and swaps it with the mid frame under     *)
(* midFrameMutex; the main thread calls SwapFrames, StartCamera,           *)
(* StopCamera, Enable/DisableRealSenseFeature and the resolution setters.  *)
(* Every statement of CameraThread that touches shared state is one step   *)
(* of the thread; a main-thread call is one step unless it blocks (the     *)
(* mutex of SwapFrames, the join of StopCamera).                           *)
(***************************************************************************)
EXTENDS Integers, FiniteSets, Sequences, TLC

\* ---------------------------------------------------------------- bounds
\* Frames one run of CameraThread acquires before AcquireFrame only fails.
MaxFrames == 2
\* Face configuration / output objects alive at once (leaks included).
MaxHandles == 2
\* SaveScan calls the main thread makes.
MaxSaves == 2
MaxRequests == 2

\* ------------------------------------------------------ program constants
\* colorImage.resize(width * height * 4)
BytesPerPixel == 4

\* The three RealSenseDataFrame objects made by the constructor.
Frames == 1..3

Roles == {"fg", "mid", "bg"}

Features == {"CAMERA_STREAMING", "SCAN_3D", "HEAD_TRACKING"}

\* FStreamResolution, width and height only; {} is 0 x 0.
NoResolution == [width |-> 0, height |-> 0]

\* Values GetEColorResolutionValue / GetEDepthResolutionValue can return.
Resolutions == {[width |-> 1, height |-> 1], [width |-> 2, height |-> 1]}

\* A buffer nobody has copied an image into yet.
NeverWritten == [width |-> -1, height |-> -1]

\* AcquirePreviewImage() returning nullptr: the module has no preview image.
NullImage == [width |-> -2, height |-> -2]

VARIABLES
    fgFrame, midFrame, bgFrame,  \* which frame object each unique_ptr holds
    number,                      \* number[f]: RealSenseDataFrame::number
    colorLen, depthLen,          \* size() of colorImage / depthImage of f
    colorCopied, depthCopied,    \* resolution used by the last copy into f
    colorResolution, depthResolution,
    cameraThreadRunning,         \* std::atomic_bool
    camPc,                       \* where cameraThread is
    currentFrame,                \* local of CameraThread
    midFrameMutex,               \* "free", "cam" or "main"
    mainPc,                      \* where the main thread is
    feat,                        \* feature flags and SDK module handles
    camTouched, mainTouched,     \* roles of the frames last written unlocked
    stopped, sentinel,           \* StopCamera returned; top number then
    seen,                        \* top number fg held after a SwapFrames
    published,                   \* top number any publish has carried
    scanLen,                     \* size() of scanImage of f
    scan3DResolution,
    scan3DImageSizeChanged,      \* std::atomic_bool
    preview,                     \* size of the module's preview image
    scanStarted, scanStopped,    \* std::atomic_bool, requests to the loop
    reconstructEnabled, scanCompleted,
    startScan,                   \* startScan of the module's configuration
    scan3DFileFormat, scan3DFilename, \* the SaveScan call that wrote them
    saves,                       \* SaveScan calls made so far
    scanRequests,                \* the StartScanning / StopScanning calls made, in order
    saveOpen,                    \* a SaveScan no Reconstruct has followed
    saveAcq,                     \* ... and a frame was acquired since
    lastAcquire,                 \* how the last AcquireFrame ended
    reconstructed                \* the arguments of the last Reconstruct

ringVars == <<fgFrame, midFrame, bgFrame, number>>
imageVars == <<colorLen, depthLen, colorCopied, depthCopied>>
resVars == <<colorResolution, depthResolution>>
threadVars == <<cameraThreadRunning, camPc, currentFrame>>
obsVars == <<camTouched, mainTouched, stopped, sentinel, seen, published>>
\* The observers no statement before the publish of CameraThread updates.
mainObs == <<mainTouched, stopped, sentinel, seen, published>>
scanVars == <<scanLen, scan3DResolution, scan3DImageSizeChanged, preview,
              scanStarted, scanStopped, reconstructEnabled, scanCompleted,
              startScan, scan3DFileFormat, scan3DFilename, saves>>
scanObs == <<scanRequests, saveOpen, saveAcq, lastAcquire, reconstructed>>
vars == <<ringVars, imageVars, resVars, threadVars, midFrameMutex, mainPc,
          feat, obsVars, scanVars, scanObs>>

\* ------------------------------------------------------------- helpers
Max(a, b) == IF a >= b THEN a ELSE b

\* Length of a buffer resized for an image of resolution res.
ImageLen(res, bytes) == res.width * res.height * bytes

\* A camera thread exists and has not returned from CameraThread.
ThreadAlive == camPc \notin {"none", "exited"}

\* Highest frame number held by any of the three frames.
TopNumber == Max(number[fgFrame], Max(number[midFrame], number[bgFrame]))

\* ------------------------------------------------------ feature state
\* faceConfig / faceData are raw pointers the constructor never sets:
\* "uninit" until assigned, "live" while the object they point to is
\* unreleased, "released" once Release() was called through them.
\* configs / outputs count the SDK objects created and not yet released.
FeatInit ==
    [set |-> {}, color |-> FALSE, depth |-> FALSE, scan |-> FALSE,
     face |-> FALSE, p3DScan |-> "null", pFace |-> "null",
     faceConfig |-> "uninit", faceData |-> "uninit",
     configs |-> 0, outputs |-> 0, fault |-> "none"]


\* The process has hit undefined behaviour that ended it.
Crashed == feat.fault # "none"

\* EnableRealSenseFeature: every call ORs the bit in, sets the flags and
\* re-queries the module; HEAD_TRACKING creates a new active configuration.
EnableRealSenseFeature(s, feature) ==
    LET s1 == [s EXCEPT !.set = @ \cup {feature}] IN
    CASE feature = "CAMERA_STREAMING" ->
            [s1 EXCEPT !.color = TRUE, !.depth = TRUE]
      [] feature = "SCAN_3D" ->
            [s1 EXCEPT !.p3DScan = "set", !.scan = TRUE]
      [] feature = "HEAD_TRACKING" ->
            [s1 EXCEPT !.pFace = "set", !.faceConfig = "live",
                       !.configs = @ + 1, !.face = TRUE]

\* EnableRealSenseFeatures: the single-feature call per bit, in source order.
EnableRealSenseFeatures(s, featureSet) ==
    LET a == IF "CAMERA_STREAMING" \in featureSet
             THEN EnableRealSenseFeature(s, "CAMERA_STREAMING") ELSE s
        b == IF "SCAN_3D" \in featureSet
             THEN EnableRealSenseFeature(a, "SCAN_3D") ELSE a
    IN  IF "HEAD_TRACKING" \in featureSet
        THEN EnableRealSenseFeature(b, "HEAD_TRACKING") ELSE b

\* ptr->Release(): defined only on a live object.  Through a pointer that
\* was never assigned or whose object is already released it is undefined
\* behaviour: the build either goes on as if nothing happened or faults.
ReleaseHandle(s, ptr, count) ==
    IF s[ptr] = "live"
    THEN {[s EXCEPT ![ptr] = "released", ![count] = @ - 1]}
    ELSE {s, [s EXCEPT !.fault = ptr]}

\* Run the next statement on every outcome that has not faulted.
Then(outcomes, Stmt(_)) ==
    UNION {IF x.fault # "none" THEN {x} ELSE Stmt(x) : x \in outcomes}

\* DisableRealSenseFeature: the set of states the call can leave.  The
\* feature bit stays in RealSenseFeatureSet; HEAD_TRACKING releases both
\* face handles without looking at them.
DisableRealSenseFeature(s, feature) ==
    CASE feature = "CAMERA_STREAMING" ->
            {[s EXCEPT !.color = FALSE, !.depth = FALSE]}
      [] feature = "SCAN_3D" ->
            {[s EXCEPT !.scan = FALSE]}
      [] feature = "HEAD_TRACKING" ->
            LET RelConfig(x) == ReleaseHandle(x, "faceConfig", "configs")
                RelData(x) == ReleaseHandle(x, "faceData", "outputs")
                Clear(x) == {[x EXCEPT !.face = FALSE]}
            IN  Then(Then(RelConfig(s), RelData), Clear)

\* DisableRealSenseFeatures: the single-feature call per bit, in source order.
DisableRealSenseFeatures(s, featureSet) ==
    LET DisC(x) == IF "CAMERA_STREAMING" \in featureSet
                   THEN DisableRealSenseFeature(x, "CAMERA_STREAMING") ELSE {x}
        DisS(x) == IF "SCAN_3D" \in featureSet
                   THEN DisableRealSenseFeature(x, "SCAN_3D") ELSE {x}
        DisH(x) == IF "HEAD_TRACKING" \in featureSet
                   THEN DisableRealSenseFeature(x, "HEAD_TRACKING") ELSE {x}
    IN  Then(Then(DisC(s), DisS), DisH)

\* The tail of StopCamera: disable the recorded feature set, Close() the
\* SenseManager, enable the same set again.
ResetPipeline(s) ==
    {IF x.fault # "none" THEN x ELSE EnableRealSenseFeatures(x, x.set) :
        x \in DisableRealSenseFeatures(s, s.set)}

\* ---------------------------------------------------------------- Init
\* The state the constructor leaves: three fresh frames numbered 0 with
\* empty buffers, no thread, no feature, zero resolutions.
Init ==
    /\ fgFrame = 1 /\ midFrame = 2 /\ bgFrame = 3
    /\ number = [f \in Frames |-> 0]
    /\ colorLen = [f \in Frames |-> 0]
    /\ depthLen = [f \in Frames |-> 0]
    /\ colorCopied = [f \in Frames |-> NeverWritten]
    /\ depthCopied = [f \in Frames |-> NeverWritten]
    /\ colorResolution = NoResolution
    /\ depthResolution = NoResolution
    /\ cameraThreadRunning = FALSE
    /\ camPc = "none"
    /\ currentFrame = 0
    /\ midFrameMutex = "free"
    /\ mainPc = "idle"
    /\ feat = FeatInit
    /\ camTouched = {}
    /\ mainTouched = {}
    /\ stopped = FALSE
    /\ sentinel = 0
    /\ seen = 0
    /\ published = 0
    /\ scanLen = [f \in Frames |-> 0]
    /\ scan3DResolution = NoResolution
    /\ scan3DImageSizeChanged = FALSE
    /\ preview = NullImage
    /\ scanStarted = FALSE /\ scanStopped = FALSE
    /\ reconstructEnabled = FALSE /\ scanCompleted = FALSE
    /\ startScan = FALSE
    /\ scan3DFileFormat = 0 /\ scan3DFilename = 0
    /\ saves = 0
    /\ scanRequests = << >>
    /\ saveOpen = FALSE /\ saveAcq = FALSE
    /\ lastAcquire = "none"
    /\ reconstructed = [format |-> 0, filename |-> 0]

\* -------------------------------------------------------- CameraThread
\* fgFrame->number = 0, written by the new thread without the mutex.
CamResetFg ==
    /\ ~Crashed /\ camPc = "reset_fg"
    /\ UNCHANGED <<scanVars, scanObs>>
    /\ number' = [number EXCEPT ![fgFrame] = 0]
    /\ camPc' = "reset_mid"
    /\ camTouched' = {"fg"}
    /\ UNCHANGED <<fgFrame, midFrame, bgFrame, imageVars, resVars,
                   cameraThreadRunning, currentFrame, midFrameMutex,
                   mainPc, feat, mainObs>>

\* midFrame->number = 0, likewise.
CamResetMid ==
    /\ ~Crashed /\ camPc = "reset_mid"
    /\ UNCHANGED <<scanVars, scanObs>>
    /\ number' = [number EXCEPT ![midFrame] = 0]
    /\ camPc' = "reset_bg"
    /\ camTouched' = {"mid"}
    /\ UNCHANGED <<fgFrame, midFrame, bgFrame, imageVars, resVars,
                   cameraThreadRunning, currentFrame, midFrameMutex,
                   mainPc, feat, mainObs>>

\* bgFrame->number = 0.
CamResetBg ==
    /\ ~Crashed /\ camPc = "reset_bg"
    /\ UNCHANGED <<scanVars, scanObs>>
    /\ number' = [number EXCEPT ![bgFrame] = 0]
    /\ camPc' = "init"
    /\ camTouched' = {"bg"}
    /\ UNCHANGED <<fgFrame, midFrame, bgFrame, imageVars, resVars,
                   cameraThreadRunning, currentFrame, midFrameMutex,
                   mainPc, feat, mainObs>>

\* senseManager->Init(): on an error status the thread returns at once and
\* leaves cameraThreadRunning as StartCamera set it.
CamInit ==
    /\ ~Crashed /\ camPc = "init"
    /\ UNCHANGED <<scanVars, scanObs>>
    /\ \E ok \in BOOLEAN : camPc' = IF ok THEN "create_output" ELSE "exited"
    /\ camTouched' = {}
    /\ UNCHANGED <<ringVars, imageVars, resVars, cameraThreadRunning,
                   currentFrame, midFrameMutex, mainPc, feat,
                   mainObs>>

\* if (faceEnabled.load()) faceData = pFace->CreateOutput();
CamCreateOutput ==
    /\ ~Crashed /\ camPc = "create_output"
    /\ UNCHANGED <<scanVars, scanObs>>
    /\ feat' = IF feat.face
               THEN [feat EXCEPT !.faceData = "live", !.outputs = @ + 1]
               ELSE feat
    /\ camPc' = "loop"
    /\ UNCHANGED <<ringVars, imageVars, resVars, cameraThreadRunning,
                   currentFrame, midFrameMutex, mainPc, obsVars>>

\* while (cameraThreadRunning.load() == true)
CamLoop ==
    /\ ~Crashed /\ camPc = "loop"
    /\ UNCHANGED <<scanVars, scanObs>>
    /\ camPc' = IF cameraThreadRunning THEN "acquire" ELSE "exited"
    /\ camTouched' = {}
    /\ UNCHANGED <<ringVars, imageVars, resVars, cameraThreadRunning,
                   currentFrame, midFrameMutex, mainPc, feat,
                   mainObs>>

\* ++currentFrame as it would be if it stood before the continue.
CounterAfterAcquire_Always(ok) == currentFrame + 1

\* currentFrame after AcquireFrame: ++currentFrame stands behind the continue.
CounterAfterAcquire(ok) == IF ok THEN currentFrame + 1 ELSE currentFrame

\* AcquireFrame(true): on any status but NO_ERROR, continue; otherwise
\* bgFrame->number = ++currentFrame.
CamAcquire ==
    /\ ~Crashed /\ camPc = "acquire"
    /\ UNCHANGED <<scanVars, scanRequests, saveOpen, reconstructed>>
    /\ \/ /\ camPc' = "loop"
          /\ camTouched' = {}
          /\ currentFrame' = CounterAfterAcquire(FALSE)
          /\ lastAcquire' = "failed"
          /\ UNCHANGED <<number, saveAcq>>
       \/ /\ currentFrame < MaxFrames
          /\ currentFrame' = CounterAfterAcquire(TRUE)
          /\ number' = [number EXCEPT ![bgFrame] = currentFrame']
          /\ camPc' = "color"
          /\ camTouched' = {"bg"}
          /\ lastAcquire' = "ok"
          /\ saveAcq' = saveOpen
    /\ UNCHANGED <<fgFrame, midFrame, bgFrame, imageVars, resVars,
                   cameraThreadRunning, midFrameMutex, mainPc, feat,
                   mainObs>>

\* if (colorStreamingEnabled && sample->color) { colorImage.clear();
\* CopyColorImageToBuffer(..., colorImage.data(), colorResolution.width,
\* .height); }  clear() leaves the vector with size() == 0, and the copy,
\* handed the raw data() pointer, cannot change it.
CamColor ==
    /\ ~Crashed /\ camPc = "color"
    /\ UNCHANGED <<scanVars, scanObs>>
    /\ \E sampleColor \in BOOLEAN :
         IF feat.color /\ sampleColor
         THEN /\ colorLen' = [colorLen EXCEPT ![bgFrame] = 0]
              /\ colorCopied' = [colorCopied EXCEPT ![bgFrame] = colorResolution]
              /\ camTouched' = {"bg"}
         ELSE /\ UNCHANGED <<colorLen, colorCopied>>
              /\ camTouched' = {}
    /\ camPc' = "depth"
    /\ UNCHANGED <<ringVars, depthLen, depthCopied, resVars,
                   cameraThreadRunning, currentFrame, midFrameMutex,
                   mainPc, feat, mainObs>>

\* if (depthStreamingEnabled && sample->depth) CopyDepthImageToBuffer(...,
\* depthImage.data(), depthResolution.width, .height): the size stays.
CamDepth ==
    /\ ~Crashed /\ camPc = "depth"
    /\ UNCHANGED <<scanVars, scanObs>>
    /\ \E sampleDepth \in BOOLEAN :
         IF feat.depth /\ sampleDepth
         THEN /\ depthCopied' = [depthCopied EXCEPT ![bgFrame] = depthResolution]
              /\ camTouched' = {"bg"}
         ELSE /\ UNCHANGED depthCopied
              /\ camTouched' = {}
    /\ camPc' = "scan"
    /\ UNCHANGED <<ringVars, colorLen, colorCopied, depthLen, resVars,
                   cameraThreadRunning, currentFrame, midFrameMutex,
                   mainPc, feat, mainObs>>

\* Everything the scan stage leaves alone.
scanStageFrame ==
    <<ringVars, imageVars, resVars, cameraThreadRunning, currentFrame,
      midFrameMutex, mainPc, feat, mainObs, scan3DFileFormat, scan3DFilename,
      saves, preview, scanRequests, saveAcq, lastAcquire>>

\* if (scan3DEnabled) { if (scanStarted) { config.startScan = true;
\* SetConfiguration(config); scanStarted.store(false); } ...
CamScanStart ==
    /\ ~Crashed /\ camPc = "scan"
    /\ IF ~feat.scan
       THEN camPc' = "face" /\ UNCHANGED <<startScan, scanStarted>>
       ELSE /\ camPc' = "scan_stop"
            /\ IF scanStarted
               THEN startScan' = TRUE /\ scanStarted' = FALSE
               ELSE UNCHANGED <<startScan, scanStarted>>
    /\ camTouched' = {}
    /\ UNCHANGED <<scanStageFrame, reconstructed, scanLen, scan3DResolution,
                   scan3DImageSizeChanged, scanStopped, reconstructEnabled,
                   scanCompleted, saveOpen>>

\* if (scanStopped) { config.startScan = false; SetConfiguration(config);
\* scanStopped.store(false); }
CamScanStop ==
    /\ ~Crashed /\ camPc = "scan_stop"
    /\ IF scanStopped
       THEN startScan' = FALSE /\ scanStopped' = FALSE
       ELSE UNCHANGED <<startScan, scanStopped>>
    /\ camPc' = "preview"
    /\ camTouched' = {}
    /\ UNCHANGED <<scanStageFrame, reconstructed, scanLen, scan3DResolution,
                   scan3DImageSizeChanged, scanStarted, reconstructEnabled,
                   scanCompleted, saveOpen>>

\* UpdateScan3DImageSize returns at once when the size is the recorded one.
SizeChanged(info) ==
    ~(scan3DResolution.width = info.width
        /\ scan3DResolution.height = info.height)

\* scanImage = AcquirePreviewImage(); if (scanImage != nullptr)
\* UpdateScan3DImageSize(scanImage->QueryInfo()), up to the assignment of
\* scan3DResolution.
CamPreview ==
    /\ ~Crashed /\ camPc = "preview"
    /\ IF preview = NullImage
       THEN camPc' = "reconstruct" /\ UNCHANGED scan3DResolution
       ELSE IF SizeChanged(preview)
            THEN camPc' = "resize_bg" /\ scan3DResolution' = preview
            ELSE camPc' = "scan_copy" /\ UNCHANGED scan3DResolution
    /\ camTouched' = {}
    /\ UNCHANGED <<scanStageFrame, reconstructed, scanLen, scan3DImageSizeChanged,
                   scanStarted, scanStopped, reconstructEnabled,
                   scanCompleted, startScan, saveOpen>>

\* bgFrame->scanImage.resize(width * height * 4)
CamResizeBg ==
    /\ ~Crashed /\ camPc = "resize_bg"
    /\ scanLen' = [scanLen EXCEPT
                     ![bgFrame] = ImageLen(scan3DResolution, BytesPerPixel)]
    /\ camPc' = "resize_mid"
    /\ camTouched' = {"bg"}
    /\ UNCHANGED <<scanStageFrame, reconstructed, scan3DResolution, scan3DImageSizeChanged,
                   scanStarted, scanStopped, reconstructEnabled,
                   scanCompleted, startScan, saveOpen>>

\* midFrame->scanImage.resize(...), without midFrameMutex.
CamResizeMid ==
    /\ ~Crashed /\ camPc = "resize_mid"
    /\ scanLen' = [scanLen EXCEPT
                     ![midFrame] = ImageLen(scan3DResolution, BytesPerPixel)]
    /\ camPc' = "resize_fg"
    /\ camTouched' = {"mid"}
    /\ UNCHANGED <<scanStageFrame, reconstructed, scan3DResolution, scan3DImageSizeChanged,
                   scanStarted, scanStopped, reconstructEnabled,
                   scanCompleted, startScan, saveOpen>>

\* fgFrame->scanImage.resize(...); scan3DImageSizeChanged.store(true)
CamResizeFg ==
    /\ ~Crashed /\ camPc = "resize_fg"
    /\ scanLen' = [scanLen EXCEPT
                     ![fgFrame] = ImageLen(scan3DResolution, BytesPerPixel)]
    /\ scan3DImageSizeChanged' = TRUE
    /\ camPc' = "scan_copy"
    /\ camTouched' = {"fg"}
    /\ UNCHANGED <<scanStageFrame, reconstructed, scan3DResolution, scanStarted,
                   scanStopped, reconstructEnabled, scanCompleted, startScan,
                   saveOpen>>

\* CopyColorImageToBuffer(scanImage, bgFrame->scanImage.data(),
\* scan3DResolution.width, .height); scanImage->Release();
CamScanCopy ==
    /\ ~Crashed /\ camPc = "scan_copy"
    /\ camPc' = "reconstruct"
    /\ camTouched' = {"bg"}
    /\ UNCHANGED <<scanStageFrame, reconstructed, scanLen, scan3DResolution,
                   scan3DImageSizeChanged, scanStarted, scanStopped,
                   reconstructEnabled, scanCompleted, startScan, saveOpen>>

\* if (reconstructEnabled) status = p3DScan->Reconstruct(scan3DFileFormat,
\* scan3DFilename.c_str()): the call begins.
CamReconstruct ==
    /\ ~Crashed /\ camPc = "reconstruct"
    /\ IF reconstructEnabled
       THEN /\ camPc' = "reconstruct_done" /\ saveOpen' = FALSE
            /\ reconstructed' = [format |-> scan3DFileFormat,
                                 filename |-> scan3DFilename]
       ELSE camPc' = "face" /\ UNCHANGED <<saveOpen, reconstructed>>
    /\ camTouched' = {}
    /\ UNCHANGED <<scanStageFrame, scanLen, scan3DResolution,
                   scan3DImageSizeChanged, scanStarted, scanStopped,
                   reconstructEnabled, scanCompleted, startScan>>

\* Reconstruct has returned: reconstructEnabled.store(false);
\* scanCompleted.store(true);
CamReconstructDone ==
    /\ ~Crashed /\ camPc = "reconstruct_done"
    /\ reconstructEnabled' = FALSE
    /\ scanCompleted' = TRUE
    /\ camPc' = "face"
    /\ camTouched' = {}
    /\ UNCHANGED <<scanStageFrame, reconstructed, scanLen, scan3DResolution,
                   scan3DImageSizeChanged, scanStarted, scanStopped,
                   startScan, saveOpen>>

\* if (faceEnabled) if (pFace) faceData->Update() ...: undefined behaviour
\* when faceData is not a live output.
CamFace ==
    /\ ~Crashed /\ camPc = "face"
    /\ UNCHANGED <<scanVars, scanObs>>
    /\ IF feat.face /\ feat.pFace = "set"
       THEN /\ feat' \in IF feat.faceData = "live" THEN {feat}
                         ELSE {feat, [feat EXCEPT !.fault = "faceData"]}
            /\ camTouched' = {"bg"}
       ELSE /\ UNCHANGED feat
            /\ camTouched' = {}
    /\ camPc' = "lock"
    /\ UNCHANGED <<ringVars, imageVars, resVars, cameraThreadRunning,
                   currentFrame, midFrameMutex, mainPc, mainObs>>

\* ReleaseFrame(); std::unique_lock<std::mutex> lockIntermediate(midFrameMutex)
CamLock ==
    /\ ~Crashed /\ camPc = "lock"
    /\ UNCHANGED <<scanVars, scanObs>>
    /\ midFrameMutex = "free"
    /\ midFrameMutex' = "cam"
    /\ camPc' = "swap"
    /\ camTouched' = {}
    /\ UNCHANGED <<ringVars, imageVars, resVars, cameraThreadRunning,
                   currentFrame, mainPc, feat, mainObs>>

\* The mutex if lockIntermediate outlived the iteration it is declared in.
MutexAfterPublish_Kept == "cam"

\* lockIntermediate is a local of the loop body: its destructor unlocks at
\* the closing brace of the iteration, right behind the swap.
MutexAfterPublish == "free"

\* bgFrame.swap(midFrame); the lock is released at the end of the iteration.
CamSwap ==
    /\ ~Crashed /\ camPc = "swap"
    /\ UNCHANGED <<scanVars, scanObs>>
    /\ bgFrame' = midFrame
    /\ midFrame' = bgFrame
    /\ midFrameMutex' = MutexAfterPublish
    /\ camPc' = "loop"
    /\ published' = Max(published, number[bgFrame])
    /\ UNCHANGED <<fgFrame, number, imageVars, resVars, cameraThreadRunning,
                   currentFrame, mainPc, feat, camTouched, mainTouched,
                   stopped, sentinel, seen>>

\* The scan stage of an iteration, lines 164-191.
CamScanStage ==
    \/ CamScanStart \/ CamScanStop \/ CamPreview
    \/ CamResizeBg \/ CamResizeMid \/ CamResizeFg \/ CamScanCopy
    \/ CamReconstruct \/ CamReconstructDone

CameraThread ==
    \/ CamResetFg \/ CamResetMid \/ CamResetBg \/ CamInit \/ CamCreateOutput
    \/ CamLoop \/ CamAcquire \/ CamColor \/ CamDepth \/ CamScanStage
    \/ CamFace \/ CamLock \/ CamSwap

\* --------------------------------------------------------- main thread
\* SwapFrames, first half: std::unique_lock<std::mutex> lock(midFrameMutex)
SwapFramesLock ==
    /\ ~Crashed /\ mainPc = "idle"
    /\ UNCHANGED <<scanVars, scanObs>>
    /\ midFrameMutex = "free"
    /\ midFrameMutex' = "main"
    /\ mainPc' = "swap"
    /\ mainTouched' = {}
    /\ UNCHANGED <<ringVars, imageVars, resVars, threadVars, feat, camTouched,
                   stopped, sentinel, seen, published>>

\* if (fgFrame->number < midFrame->number)
TakesMid == number[fgFrame] < number[midFrame]

\* SwapFrames, second half: the comparison, fgFrame.swap(midFrame), unlock.
SwapFramesSwap ==
    /\ ~Crashed /\ mainPc = "swap"
    /\ UNCHANGED <<scanVars, scanObs>>
    /\ IF TakesMid
       THEN fgFrame' = midFrame /\ midFrame' = fgFrame
       ELSE UNCHANGED <<fgFrame, midFrame>>
    /\ seen' = Max(seen, number[fgFrame'])
    /\ midFrameMutex' = "free"
    /\ mainPc' = "idle"
    /\ UNCHANGED <<bgFrame, number, imageVars, resVars, threadVars, feat,
                   camTouched, mainTouched, stopped, sentinel, published>>

\* if (cameraThreadRunning.load() == false) in StartCamera
StartCameraSpawns == cameraThreadRunning = FALSE

\* StartCamera: store(true) and construct the thread, whose local
\* currentFrame starts at 0; otherwise nothing.  Move-assigning over a
\* std::thread that is still joinable calls std::terminate.
StartCamera ==
    /\ ~Crashed /\ mainPc = "idle"
    /\ UNCHANGED <<scanVars, scanObs>>
    /\ IF StartCameraSpawns
       THEN /\ cameraThreadRunning' = TRUE
            /\ camPc' = "reset_fg"
            /\ currentFrame' = 0
            /\ feat' = IF camPc = "none" THEN feat
                       ELSE [feat EXCEPT !.fault = "cameraThread"]
       ELSE UNCHANGED <<threadVars, feat>>
    /\ mainTouched' = {}
    /\ stopped' = FALSE
    /\ sentinel' = 0
    /\ UNCHANGED <<ringVars, imageVars, resVars, midFrameMutex, mainPc,
                   camTouched, seen, published>>

\* StopCamera as it would be without the store(false) and the join.
StopCameraJoins_Never == FALSE

\* if (cameraThreadRunning.load() == true) in StopCamera
StopCameraJoins == cameraThreadRunning = TRUE

\* StopCamera up to the join: store(false), then wait in join(); with the
\* flag already false it goes straight to the pipeline reset.
StopCameraCall ==
    /\ ~Crashed /\ mainPc = "idle"
    /\ UNCHANGED <<scanVars, scanObs>>
    /\ IF StopCameraJoins
       THEN cameraThreadRunning' = FALSE /\ mainPc' = "join"
       ELSE UNCHANGED cameraThreadRunning /\ mainPc' = "reset"
    /\ mainTouched' = {}
    /\ UNCHANGED <<ringVars, imageVars, resVars, camPc, currentFrame,
                   midFrameMutex, feat, camTouched, stopped, sentinel, seen,
                   published>>

\* cameraThread.join() returns once CameraThread has returned.
StopCameraJoin ==
    /\ ~Crashed /\ mainPc = "join"
    /\ UNCHANGED <<scanVars, scanObs>>
    /\ camPc = "exited"
    /\ camPc' = "none"
    /\ mainPc' = "reset"
    /\ UNCHANGED <<ringVars, imageVars, resVars, cameraThreadRunning,
                   currentFrame, midFrameMutex, feat, obsVars>>

\* DisableRealSenseFeatures(set); Close(); EnableRealSenseFeatures(set); and
\* the return of StopCamera, unless a release faulted.
StopCameraReset ==
    /\ ~Crashed /\ mainPc = "reset"
    /\ UNCHANGED <<scanVars, scanObs>>
    /\ feat' \in ResetPipeline(feat)
    /\ IF feat'.fault = "none"
       THEN mainPc' = "idle" /\ stopped' = TRUE /\ sentinel' = TopNumber
       ELSE UNCHANGED <<mainPc, stopped, sentinel>>
    /\ UNCHANGED <<ringVars, imageVars, resVars, threadVars, midFrameMutex,
                   camTouched, mainTouched, seen, published>>

\* EnableRealSenseFeature(feature), a call of the main thread.
EnableFeature(feature) ==
    /\ ~Crashed /\ mainPc = "idle"
    /\ UNCHANGED <<scanVars, scanObs>>
    /\ feature = "HEAD_TRACKING" => feat.configs < MaxHandles
    /\ feat' = EnableRealSenseFeature(feat, feature)
    /\ mainTouched' = {}
    /\ UNCHANGED <<ringVars, imageVars, resVars, threadVars, midFrameMutex,
                   mainPc, camTouched, stopped, sentinel, seen, published>>

\* DisableRealSenseFeature(feature), a call of the main thread.
DisableFeature(feature) ==
    /\ ~Crashed /\ mainPc = "idle"
    /\ UNCHANGED <<scanVars, scanObs>>
    /\ feat' \in DisableRealSenseFeature(feat, feature)
    /\ mainTouched' = {}
    /\ UNCHANGED <<ringVars, imageVars, resVars, threadVars, midFrameMutex,
                   mainPc, camTouched, stopped, sentinel, seen, published>>

\* SetColorCameraResolution: colorResolution is overwritten first; the three
\* colorImage buffers are resized only when EnableStream reports NO_ERROR
\* (ok).
SetColorCameraResolutionTo(res, ok) ==
    /\ ~Crashed /\ mainPc = "idle"
    /\ UNCHANGED <<scanVars, scanObs>>
    /\ colorResolution' = res
    /\ IF ok
       THEN /\ colorLen' = [f \in Frames |-> ImageLen(res, BytesPerPixel)]
            /\ mainTouched' = IF ThreadAlive THEN Roles ELSE {}
       ELSE /\ UNCHANGED colorLen
            /\ mainTouched' = {}
    /\ UNCHANGED <<ringVars, depthLen, colorCopied, depthCopied,
                   depthResolution, threadVars, midFrameMutex, mainPc, feat,
                   camTouched, stopped, sentinel, seen, published>>

SetColorCameraResolution ==
    \E res \in Resolutions, ok \in BOOLEAN :
        SetColorCameraResolutionTo(res, ok)

\* SetDepthCameraResolution: the same for depthImage, width * height long.
SetDepthCameraResolutionTo(res, ok) ==
    /\ ~Crashed /\ mainPc = "idle"
    /\ UNCHANGED <<scanVars, scanObs>>
    /\ depthResolution' = res
    /\ IF ok
       THEN /\ depthLen' = [f \in Frames |-> ImageLen(res, 1)]
            /\ mainTouched' = IF ThreadAlive THEN Roles ELSE {}
       ELSE /\ UNCHANGED depthLen
            /\ mainTouched' = {}
    /\ UNCHANGED <<ringVars, colorLen, colorCopied, depthCopied,
                   colorResolution, threadVars, midFrameMutex, mainPc, feat,
                   camTouched, stopped, sentinel, seen, published>>

SetDepthCameraResolution ==
    \E res \in Resolutions, ok \in BOOLEAN :
        SetDepthCameraResolutionTo(res, ok)

\* Everything a scan-control call leaves alone.
scanCallFrame ==
    <<ringVars, imageVars, resVars, threadVars, midFrameMutex, feat,
      camTouched, stopped, sentinel, seen, published, scanLen,
      scan3DResolution, scan3DImageSizeChanged, preview, startScan,
      lastAcquire>>

\* The camera thread is inside its while loop.
LoopRunning ==
    camPc \notin {"none", "exited", "reset_fg", "reset_mid", "reset_bg",
                  "init", "create_output"}

\* A scan-control call as the history records it: by its name when it is
\* made with the loop running and SCAN_3D active, as "other" otherwise.
Request(call) == IF LoopRunning /\ feat.scan THEN call ELSE "other"

\* StartScanning: scanStarted.store(true); scanCompleted.store(false);
StartScanning ==
    /\ ~Crashed /\ mainPc = "idle"
    /\ Len(scanRequests) < MaxRequests
    /\ scanStarted' = TRUE
    /\ scanCompleted' = FALSE
    /\ scanRequests' = Append(scanRequests, Request("start"))
    /\ mainTouched' = {}
    /\ UNCHANGED <<scanCallFrame, reconstructed, mainPc, scanStopped, reconstructEnabled,
                   scan3DFileFormat, scan3DFilename, saves, saveOpen,
                   saveAcq>>

\* StopScanning: scanStopped.store(true);
StopScanning ==
    /\ ~Crashed /\ mainPc = "idle"
    /\ Len(scanRequests) < MaxRequests
    /\ scanStopped' = TRUE
    /\ scanRequests' = Append(scanRequests, Request("stop"))
    /\ mainTouched' = {}
    /\ UNCHANGED <<scanCallFrame, reconstructed, mainPc, scanStarted, scanCompleted,
                   reconstructEnabled, scan3DFileFormat, scan3DFilename,
                   saves, saveOpen, saveAcq>>

\* SaveScan, first statement: scan3DFileFormat = saveFileFormat, a plain
\* member the camera thread reads.
SaveScanFormat ==
    /\ ~Crashed /\ mainPc = "idle"
    /\ saves < MaxSaves
    /\ saves' = saves + 1
    /\ scan3DFileFormat' = saves'
    /\ mainPc' = "save_name"
    /\ mainTouched' = {}
    /\ UNCHANGED <<scanCallFrame, reconstructed, scanStarted, scanStopped, scanCompleted,
                   reconstructEnabled, scan3DFilename, scanRequests,
                   saveOpen, saveAcq>>

\* Reconstruct is inside its call, holding scan3DFilename.c_str().
InReconstruct == camPc = "reconstruct_done"

\* What a read through a c_str() pointer yields once the string it came from
\* has been assigned: neither the old nor the new name.
Torn == -1

\* The names Reconstruct may use when scan3DFilename is assigned during the
\* call: the assignment may reuse or free the buffer c_str() points into,
\* which is undefined behaviour with any of these outcomes.
NameUnderAssignment(old, new) == {old, new, Torn}

\* SaveScan, second statement: scan3DFilename = ConvertFStringToWString(..),
\* a plain std::wstring the camera thread reads without synchronisation.
SaveScanName ==
    /\ ~Crashed /\ mainPc = "save_name"
    /\ scan3DFilename' = saves
    /\ IF InReconstruct
       THEN \E name \in NameUnderAssignment(reconstructed.filename, saves) :
                reconstructed' = [reconstructed EXCEPT !.filename = name]
       ELSE UNCHANGED reconstructed
    /\ mainPc' = "save_flag"
    /\ UNCHANGED <<scanCallFrame, mainTouched, scanStarted, scanStopped,
                   scanCompleted, reconstructEnabled, scan3DFileFormat,
                   saves, scanRequests, saveOpen, saveAcq>>

\* SaveScan, last statement: reconstructEnabled.store(true), and the return.
SaveScanFlag ==
    /\ ~Crashed /\ mainPc = "save_flag"
    /\ reconstructEnabled' = TRUE
    /\ mainPc' = "idle"
    /\ saveOpen' = feat.scan
    /\ saveAcq' = FALSE
    /\ UNCHANGED <<scanCallFrame, reconstructed, mainTouched, scanStarted, scanStopped,
                   scanCompleted, scan3DFileFormat, scan3DFilename, saves,
                   scanRequests>>

\* The 3D Scanning middleware changes the size of its preview image.
ScanPreviewChanges ==
    /\ ~Crashed /\ feat.p3DScan = "set"
    /\ \E info \in Resolutions : preview' = info /\ preview # info
    /\ UNCHANGED <<ringVars, imageVars, resVars, threadVars, midFrameMutex,
                   mainPc, feat, obsVars, scanLen, scan3DResolution,
                   scan3DImageSizeChanged, scanStarted, scanStopped,
                   reconstructEnabled, scanCompleted, startScan,
                   scan3DFileFormat, scan3DFilename, saves, scanObs>>

\* ------------------------------------------------------- specifications
\* The whole program: the camera thread and every call of the main thread.
Next ==
    \/ CameraThread
    \/ SwapFramesLock \/ SwapFramesSwap
    \/ StartCamera \/ StopCameraCall \/ StopCameraJoin \/ StopCameraReset
    \/ \E feature \in Features : EnableFeature(feature)
    \/ \E feature \in Features : DisableFeature(feature)
    \/ SetColorCameraResolution \/ SetDepthCameraResolution
    \/ StartScanning \/ StopScanning
    \/ SaveScanFormat \/ SaveScanName \/ SaveScanFlag
    \/ ScanPreviewChanges

Spec == Init /\ [][Next]_vars

\* The frame ring: a main thread that starts, stops and swaps.
NextRing ==
    \/ CamResetFg \/ CamResetMid \/ CamResetBg \/ CamInit \/ CamCreateOutput
    \/ CamLoop \/ CamAcquire \/ CamColor \/ CamDepth \/ CamFace
    \/ CamLock \/ CamSwap
    \/ CamScanStart
    \/ SwapFramesLock \/ SwapFramesSwap
    \/ StartCamera \/ StopCameraCall \/ StopCameraJoin \/ StopCameraReset

SpecRing == Init /\ [][NextRing]_vars

\* The feature state machine: a main thread that starts, stops, enables and
\* disables.
NextFeatures ==
    \/ CamResetFg \/ CamResetMid \/ CamResetBg \/ CamInit \/ CamCreateOutput
    \/ CamLoop \/ CamAcquire \/ CamColor \/ CamDepth \/ CamFace
    \/ CamLock \/ CamSwap
    \/ CamScanStart \/ CamScanStop \/ CamPreview \/ CamReconstruct
    \/ StartCamera \/ StopCameraCall \/ StopCameraJoin \/ StopCameraReset
    \/ \E feature \in Features : EnableFeature(feature)
    \/ \E feature \in Features : DisableFeature(feature)

SpecFeatures == Init /\ [][NextFeatures]_vars

\* The image buffers over one run of the camera: a main thread that starts,
\* swaps, streams and sets the resolutions.
NextImages ==
    \/ CamResetFg \/ CamResetMid \/ CamResetBg \/ CamInit \/ CamCreateOutput
    \/ CamLoop \/ CamAcquire \/ CamColor \/ CamDepth \/ CamFace
    \/ CamLock \/ CamSwap
    \/ CamScanStart
    \/ SwapFramesLock \/ SwapFramesSwap
    \/ StartCamera
    \/ EnableFeature("CAMERA_STREAMING") \/ DisableFeature("CAMERA_STREAMING")
    \/ SetColorCameraResolution \/ SetDepthCameraResolution

SpecImages == Init /\ [][NextImages]_vars

\* The scan preview: a main thread that starts the camera with SCAN_3D on
\* and swaps, and a middleware that changes the size of its preview image.
NextPreview ==
    \/ CamResetFg \/ CamResetMid \/ CamResetBg \/ CamInit \/ CamCreateOutput
    \/ CamLoop \/ CamAcquire \/ CamColor \/ CamDepth \/ CamFace
    \/ CamLock \/ CamSwap
    \/ CamScanStart \/ CamScanStop \/ CamPreview
    \/ CamResizeBg \/ CamResizeMid \/ CamResizeFg \/ CamScanCopy
    \/ CamReconstruct
    \/ SwapFramesLock \/ SwapFramesSwap
    \/ StartCamera
    \/ EnableFeature("SCAN_3D")
    \/ ScanPreviewChanges

SpecPreview == Init /\ [][NextPreview]_vars

\* Saving a scan: a main thread that starts the camera with SCAN_3D on and
\* calls SaveScan.
NextSave ==
    \/ CamResetFg \/ CamResetMid \/ CamResetBg \/ CamInit \/ CamCreateOutput
    \/ CamLoop \/ CamAcquire \/ CamColor \/ CamDepth \/ CamFace
    \/ CamLock \/ CamSwap
    \/ CamScanStart \/ CamScanStop \/ CamPreview
    \/ CamReconstruct \/ CamReconstructDone
    \/ StartCamera
    \/ EnableFeature("SCAN_3D")
    \/ SaveScanFormat \/ SaveScanName \/ SaveScanFlag

SpecSave == Init /\ [][NextSave]_vars

\* Scan control: a main thread that starts the camera, switches SCAN_3D on
\* and off and calls StartScanning, StopScanning and SaveScan.
NextScanControl ==
    \/ CamResetFg \/ CamResetMid \/ CamResetBg \/ CamInit \/ CamCreateOutput
    \/ CamLoop \/ CamAcquire \/ CamColor \/ CamDepth \/ CamFace
    \/ CamLock \/ CamSwap
    \/ CamScanStart \/ CamScanStop \/ CamPreview
    \/ CamReconstruct \/ CamReconstructDone
    \/ StartCamera
    \/ EnableFeature("SCAN_3D") \/ DisableFeature("SCAN_3D")
    \/ StartScanning \/ StopScanning
    \/ SaveScanFormat \/ SaveScanName \/ SaveScanFlag

SpecScanControl == Init /\ [][NextScanControl]_vars

\* Scan requests: the loop with SCAN_3D switched on once and never off,
\* and a main thread that calls StartScanning and StopScanning.
NextScanRequests ==
    \/ CamResetFg \/ CamResetMid \/ CamResetBg \/ CamInit \/ CamCreateOutput
    \/ CamLoop \/ CamAcquire \/ CamColor \/ CamDepth \/ CamFace
    \/ CamLock \/ CamSwap
    \/ CamScanStart \/ CamScanStop \/ CamPreview \/ CamReconstruct
    \/ StartCamera
    \/ EnableFeature("SCAN_3D")
    \/ StartScanning \/ StopScanning

SpecScanRequests == Init /\ [][NextScanRequests]_vars

\* Locking: the whole loop, scan stage and reconstruction included, against
\* a main thread that swaps, with the scheduling the code relies on: the
\* camera thread keeps running and a SwapFrames call that holds the mutex
\* goes on.
NextLocking ==
    \/ CameraThread
    \/ SwapFramesLock \/ SwapFramesSwap
    \/ StartCamera
    \/ EnableFeature("SCAN_3D")
    \/ SaveScanFormat \/ SaveScanName \/ SaveScanFlag
    \/ ScanPreviewChanges

SpecLocking == Init /\ [][NextLocking]_vars

SpecLockingFair ==
    /\ Init /\ [][NextLocking]_vars
    /\ WF_vars(CameraThread)
    /\ WF_vars(SwapFramesSwap)

\* The feature state machine with the scheduling the code relies on: the
\* camera thread keeps being scheduled, and the main thread, once inside
\* StopCamera, goes on as soon as join() lets it.
SpecFeaturesFair ==
    /\ Init /\ [][NextFeatures]_vars
    /\ WF_vars(CameraThread)
    /\ WF_vars(StopCameraJoin)
    /\ WF_vars(StopCameraReset)

\* ----------------------------------------------------------- properties
\* A SwapFrames call returns in this step.
SwapFramesReturns == mainPc = "swap" /\ mainPc' = "idle"

\* The camera thread publishes (bgFrame.swap(midFrame)) in this step.
Publishes == camPc = "swap" /\ camPc' = "loop"

\* Number of the last frame the current run of CameraThread has published.
PublishedInRun ==
    IF camPc \in {"color", "depth", "face", "lock", "swap"}
    THEN currentFrame - 1 ELSE currentFrame

\* C1: forward-only delivery.  The number the foreground frame holds when a
\* SwapFrames call returns is never lower than the number it held when any
\* earlier SwapFrames call returned.
C1_ForwardOnly == [][SwapFramesReturns => number'[fgFrame'] >= seen]_vars

\* C2: the frame number is a counter that only grows over the lifetime of
\* the object, restarts of the camera included: every publish carries a
\* number above every number published before, and the number of the
\* foreground frame never goes down.
C2_LifetimeCounter ==
    [][/\ Publishes => number[bgFrame] > published
       /\ number'[fgFrame'] >= number[fgFrame]]_vars

\* C3: slot ownership is exclusive.  While a camera thread is alive, the
\* frames it writes outside the mutex are in the background role only, and
\* the frames the main thread writes outside the mutex are in the
\* foreground role only.
C3_ExclusiveOwnership ==
    ThreadAlive => (camTouched \subseteq {"bg"} /\ mainTouched \subseteq {"fg"})

\* C4: no torn frames.  Each image buffer of the foreground frame that the
\* camera thread has copied into is as long as the resolution used by that
\* copy requires: width * height * 4 for color, width * height for depth.
C4_NoTornFrames ==
    /\ colorCopied[fgFrame] # NeverWritten =>
          colorLen[fgFrame] = ImageLen(colorCopied[fgFrame], BytesPerPixel)
    /\ depthCopied[fgFrame] # NeverWritten =>
          depthLen[fgFrame] = ImageLen(depthCopied[fgFrame], 1)

C6_StopDrains ==
    [][stopped' =>
          /\ camPc' = "none"
          /\ number'[fgFrame'] <= sentinel'
          /\ stopped => /\ number' = number
                        /\ colorCopied' = colorCopied
                        /\ depthCopied' = depthCopied
                        /\ bgFrame' = bgFrame
                        /\ published' = published]_vars

\* C6 witness: StopCamera has returned after a run that published, and the
\* main thread holds the last published frame as foreground.
C6_Witness ==
    /\ stopped /\ mainPc = "idle"
    /\ sentinel >= 1
    /\ number[fgFrame] = sentinel
    /\ seen = sentinel

\* C7: StopCamera terminates.  Under fair scheduling every StopCamera call
\* that has begun returns, with no camera thread left.
C7_StopReturns ==
    (mainPc \in {"join", "reset"}) ~> (mainPc = "idle" /\ camPc = "none")

\* C8: StartCamera spawns exactly when no task is executing.  Whenever the
\* main thread is free to call it, the call would spawn a thread if and only
\* if no camera thread is alive.
C8_StartSpawnsWhenStopped ==
    (mainPc = "idle" /\ ~Crashed) => (StartCameraSpawns <=> ~ThreadAlive)

\* C9: enable and disable are idempotent.  From every state in which the
\* main thread can make a call, a second EnableRealSenseFeature(X) right
\* after a first leaves the feature state as the first left it, and a second
\* DisableRealSenseFeature(X) can leave nothing but what the first left.
C9_Idempotent ==
    (mainPc = "idle" /\ ~Crashed) =>
        \A X \in Features :
            /\ LET once == EnableRealSenseFeature(feat, X)
               IN  EnableRealSenseFeature(once, X) = once
            /\ \A once \in DisableRealSenseFeature(feat, X) :
                  once.fault = "none" =>
                      DisableRealSenseFeature(once, X) = {once}

\* C10: DisableRealSenseFeature(HEAD_TRACKING) with HEAD_TRACKING never
\* enabled does not fault: as long as no face configuration was ever
\* created, no Release() has gone through an unassigned pointer.
C10_DisableNeverEnabled == feat.faceConfig = "uninit" => feat.fault = "none"

\* C11: tracking handle lifecycle.  The head-tracking stage of the loop uses
\* faceData only while it points to a live output, and no step goes through
\* a face handle that is released or was never created (a second Release(),
\* or an Update() on such an output, is what sets the fault).
C11_HandleLifecycle ==
    [][/\ (camPc = "face" /\ camPc' = "lock" /\ feat.face
              /\ feat.pFace = "set") => feat.faceData = "live"
       /\ feat'.fault \notin {"faceConfig", "faceData"}]_vars

\* The features whose enabled flags are true.
ActiveFeatures(s) ==
    {X \in Features :
        \/ X = "CAMERA_STREAMING" /\ s.color /\ s.depth
        \/ X = "SCAN_3D" /\ s.scan
        \/ X = "HEAD_TRACKING" /\ s.face}

\* The tail of StopCamera runs to the return of the call in this step.
StopCameraReturns == mainPc = "reset" /\ mainPc' = "idle"

\* C12: the full reset cycle preserves the active features.  When StopCamera
\* returns, the features whose flags are true are the ones whose flags were
\* true before its disable / Close / enable cycle.
C12_ResetPreservesActive ==
    [][StopCameraReturns => ActiveFeatures(feat') = ActiveFeatures(feat)]_vars

\* UpdateScan3DImageSize is between its first and its last resize.
Resizing == camPc \in {"resize_bg", "resize_mid", "resize_fg"}

\* C13: resize-before-copy.  Outside the three resize statements of
\* UpdateScan3DImageSize the scanImage buffer of every frame is as long as
\* the recorded scan resolution requires: so it is when the preview is
\* copied into the background frame, and for any frame the consumer
\* acquires after the publish.
C13_ResizeBeforeCopy ==
    ~Resizing =>
        \A f \in Frames :
            scanLen[f] = ImageLen(scan3DResolution, BytesPerPixel)

\* Reconstruct has returned and the loop stores its two flags in this step.
ReconstructReturns == camPc = "reconstruct_done" /\ camPc' = "face"

\* C14: SaveScan leads to completion.  At the end of an iteration that
\* acquired its frame after a SaveScan call made with SCAN_3D active, a
\* Reconstruct invocation has begun since that call; and when Reconstruct
\* returns, reconstructEnabled is false and scanCompleted is true.
C14_SaveLeadsToReconstruct ==
    [][/\ Publishes => ~(saveOpen /\ saveAcq)
       /\ ReconstructReturns => (~reconstructEnabled' /\ scanCompleted')]_vars

\* C15: a failed stream configuration leaves the state unchanged.  A
\* SetColorCameraResolution or SetDepthCameraResolution call whose
\* EnableStream fails changes neither the sizes of the buffers nor the
\* resolution the loop uses for its copies.
C15_FailedConfigUnchanged ==
    [][\A res \in Resolutions :
          /\ SetColorCameraResolutionTo(res, FALSE) =>
                (colorLen' = colorLen /\ colorResolution' = colorResolution)
          /\ SetDepthCameraResolutionTo(res, FALSE) =>
                (depthLen' = depthLen /\ depthResolution' = depthResolution)
      ]_vars

\* C16: disabling SCAN_3D resets the scan session.  After a
\* DisableRealSenseFeature(SCAN_3D) call the four scan flags are false, so
\* no request made before it is left for the loop to act on.
C16_DisableResetsScan ==
    [][DisableFeature("SCAN_3D") =>
          /\ ~scanStarted' /\ ~scanStopped'
          /\ ~reconstructEnabled' /\ ~scanCompleted']_vars

\* The thread holds midFrameMutex.
CamHoldsMutex == midFrameMutex = "cam"

MainHoldsMutex == midFrameMutex = "main"

\* C17: the mid frame is accessed under midFrameMutex only.  While a camera
\* thread is alive, a thread whose last statement wrote the frame in the mid
\* role holds the mutex.
C17_MidUnderMutex ==
    ThreadAlive =>
        /\ "mid" \in camTouched => CamHoldsMutex
        /\ "mid" \in mainTouched => MainHoldsMutex

\* C18: the camera thread holds midFrameMutex for the handle exchange only.
\* Whenever it holds the mutex it stands at bgFrame.swap(midFrame), never in
\* AcquireFrame, a copy, the scan or head-tracking stage or Reconstruct; it
\* gives the mutex up again, and a SwapFrames call that took the mutex
\* returns.
C18_LockOnlyForSwap ==
    /\ [](CamHoldsMutex => camPc = "swap")
    /\ (CamHoldsMutex ~> ~CamHoldsMutex)
    /\ (MainHoldsMutex ~> mainPc = "idle")

\* C18 witness: the consumer holds the mutex inside SwapFrames while the
\* camera thread is inside Reconstruct.
C18_Witness == camPc = "reconstruct_done" /\ MainHoldsMutex /\ mainPc = "swap"

\* An iteration ends at the continue behind a failed AcquireFrame.
AcquireFails == camPc = "acquire" /\ camPc' = "loop"

\* C19: an iteration in which AcquireFrame fails is invisible. It changes no
\* frame slot (roles, numbers, buffers), does not advance currentFrame,
\* consumes no scan flag, publishes nothing and leaves the mutex alone, and
\* the loop is back at the test of cameraThreadRunning; what SwapFrames hands
\* the consumer is what it would have handed without that iteration.
C19_FailedAcquireInvisible ==
    [][AcquireFails =>
          /\ UNCHANGED <<ringVars, imageVars, scanVars>>
          /\ currentFrame' = currentFrame
          /\ published' = published
          /\ seen' = seen
          /\ midFrameMutex' = midFrameMutex
          /\ cameraThreadRunning' = cameraThreadRunning]_vars

\* C19 witness: AcquireFrame has just failed in a run that had already
\* published a frame, with a SaveScan request waiting to be consumed.
C19_Witness ==
    /\ camPc = "loop" /\ lastAcquire = "failed"
    /\ currentFrame >= 1 /\ published >= 1
    /\ feat.scan /\ reconstructEnabled

\* Both request flags have been consumed by the loop.
RequestsConsumed == ~scanStarted /\ ~scanStopped

\* C20: the last scan-control request wins. With the loop running and
\* SCAN_3D active, after StopScanning and then StartScanning, and no other
\* scan-control call, the configuration has startScan = true once both flags
\* are consumed; after StartScanning and then StopScanning it has
\* startScan = false.
C20_LastRequestWins ==
    (LoopRunning /\ feat.scan /\ RequestsConsumed) =>
        /\ scanRequests = <<"stop", "start">> => startScan
        /\ scanRequests = <<"start", "stop">> => ~startScan

\* SaveScan assigns scan3DFilename.
WritesFilename == mainPc = "save_name" /\ mainPc' = "save_flag"

\* C21: every Reconstruct uses a file format and a file name written by one
\* and the same SaveScan call, never the format of one call with the name of
\* another, and scan3DFilename is never assigned while Reconstruct is using
\* it.
C21_ReconstructOneRequest ==
    /\ [](reconstructed.format = reconstructed.filename)
    /\ [][~(InReconstruct /\ WritesFilename)]_vars

====
